---- MODULE Spec2Model ----
(***************************************************************************)
(* Nurse rostering with a CP-SAT constraint model.                         *)
(*                                                                         *)
(* The model follows the repository: the calendar helper (utils.py), the   *)
(* rule library (constraints.py), and the orchestrator (scheduler.py,      *)
(* main.py).  A rule is modelled by the set of constraints it adds to the  *)
(* CpModel; the external solver returns a status and, when it found one,   *)
(* an arbitrary assignment satisfying every constraint of the model.       *)
(***************************************************************************)
EXTENDS Integers, Sequences, FiniteSets, TLC

VARIABLES
    cfg,             \* constructor inputs: num_nurses, team, num_days, start_day, num_shifts
    model,           \* the CpModel: the set of constraints added so far
    aux,             \* boolean variables created by rules (model.NewBoolVar)
    pc,              \* position of the run
    status,          \* the solver's status
    val,             \* the solver's assignment: the set of variables whose value is 1
    attrs,           \* the attributes solve() and the reports have set on self
    solution,        \* self.solution: the set of <<nurse, day, shift>>
    assigned_rests,  \* self.assigned_rests: the set of <<nurse, day>>
    roster_written,  \* whether 'Complete Rota' was written
    nurse_schedules, \* self.nurse_schedules: nurse -> day -> label
    call,            \* the library call that was made (rule and parameters)
    err,             \* the exception the last call raised, "none" otherwise
    applied_constraints, \* self.applied_constraints: description -> (rule, params), in dict order
    history,         \* every add_constraints(description, rule, **params) call made, in order
    applied          \* the rule calls apply_constraints has made, in order

vars == <<cfg, model, aux, pc, status, val, attrs, solution, assigned_rests,
          roster_written, nurse_schedules, call, err, applied_constraints,
          history, applied>>

runVars == <<status, val, attrs, solution, assigned_rests, roster_written,
             nurse_schedules>>

regVars == <<applied_constraints, history, applied>>

(***************************************************************************)
(* Bounds of the model.                                                    *)
(***************************************************************************)
MaxNurses == 2
MaxShifts == 2
MaxDays == 5
MaxBits == 10
MaxPeriod == 3
MaxLimit == 2
MaxConsecutive == 3
MaxRunNurses == 3
MaxRunDays == 1
MaxEvenDays == 10
MaxNightDays == 8
MaxWeekDays == 9
MaxRegistrations == 3
MaxDayIndex == 20
MaxHorizon == 3

NoCall == [rule |-> "none"]

Min(a, b) == IF a < b THEN a ELSE b

(***************************************************************************)
(* utils.py: what_day                                                      *)
(***************************************************************************)
days_of_week == <<"Monday", "Tuesday", "Wednesday", "Thursday",
                  "Friday", "Saturday", "Sunday">>

WeekdayNames == {days_of_week[i] : i \in 1..7}

\* list.index: the zero-based position of a name of the list
IndexOf(name) == (CHOOSE i \in 1..7 : days_of_week[i] = name) - 1

day_index(day, start_day) == (IndexOf(start_day) + day) % 7

\* what_day(day, start_day)[0]
what_day_name(day, start_day) == days_of_week[day_index(day, start_day) + 1]

\* mutation of what_day_weekend: Sunday only
what_day_weekend_SundayOnly(day, start_day) == day_index(day, start_day) >= 6

\* what_day(day, start_day)[1]
what_day_weekend(day, start_day) == day_index(day, start_day) >= 5

\* 'Part 01'/medmodus.py: what_day(start_day, current_day)[1]
medmodus_what_day_label(start_day, current_day) ==
    IF day_index(current_day, start_day) >= 5 THEN "Weekend" ELSE "Weekday"

(***************************************************************************)
(* The variable universe of NurseSchedulingModel.__post_init__.            *)
(* Every boolean variable is a 4-tuple <<kind, nurse, day, x>>.            *)
(***************************************************************************)
X(n, d, s) == <<"x", n, d, s>>      \* shifts[(nurse, day, shift)]
R(n, d)    == <<"r", n, d, 0>>      \* rest_days[(nurse, day)]
W(t, n, d) == <<"w", n, d, t>>      \* the NewBoolVar of rule call t for (nurse, day)

NurseIds(c) == 0..(c.num_nurses - 1)
all_days(c) == 0..(c.num_days - 1)
daily_shifts(c) == 0..(c.num_shifts - 1)

ShiftVars(c) == {X(n, d, s) : n \in NurseIds(c), d \in all_days(c), s \in daily_shifts(c)}
RestVars(c)  == {R(n, d) : n \in NurseIds(c), d \in all_days(c)}

(***************************************************************************)
(* Constraints of the CpModel.  sum(pos) - sum(neg) rel rhs, enforced only *)
(* when every literal of enf is true (OnlyEnforceIf).                      *)
(***************************************************************************)
Ct(op, pos, neg, rel, rhs, enf) ==
    [op |-> op, pos |-> pos, neg |-> neg, rel |-> rel, rhs |-> rhs, enf |-> enf]

Add(pos, rel, rhs) == Ct("Add", pos, {}, rel, rhs, {})
AddEq(a, b) == Ct("Add", {a}, {b}, "==", 0, {})
AddIf(pos, rel, rhs, lit) == Ct("Add", pos, {}, rel, rhs, {lit})
AddExactlyOne(lits) == Ct("AddExactlyOne", lits, {}, "==", 1, {})
AddAtMostOne(lits) == Ct("AddAtMostOne", lits, {}, "<=", 1, {})
AddMaxEquality(target, lits) == Ct("AddMaxEquality", lits, {target}, "==", 0, {})

VarsOf(c) == c.pos \cup c.neg \cup c.enf

Count(S, T) == Cardinality(S \cap T)

Rel(lhs, rel, rhs) ==
    CASE rel = "<=" -> lhs <= rhs
      [] rel = "==" -> lhs = rhs
      [] rel = ">=" -> lhs >= rhs

\* whether the assignment with exactly the variables of T at 1 satisfies c
Holds(c, T) ==
    CASE c.op = "Add" ->
           (c.enf \subseteq T) => Rel(Count(c.pos, T) - Count(c.neg, T), c.rel, c.rhs)
      [] c.op = "AddExactlyOne" -> Count(c.pos, T) = 1
      [] c.op = "AddAtMostOne" -> Count(c.pos, T) <= 1
      [] c.op = "AddMaxEquality" -> (c.neg \subseteq T) <=> (c.pos \cap T # {})

(***************************************************************************)
(* The solver: every assignment of the variables that satisfies every      *)
(* constraint.  The set is computed by deciding the variables in a fixed   *)
(* order and dropping a partial assignment as soon as a constraint whose   *)
(* variables are all decided fails, or a sum that may only grow has passed *)
(* its upper bound.                                                        *)
(***************************************************************************)
KindRank(v) == CASE v[1] = "x" -> 0 [] v[1] = "w" -> 1 [] v[1] = "r" -> 2

\* the place of a variable in the order: rest-day variables last, the others by day
SortKey(v) == <<IF v[1] = "r" THEN 1 ELSE 0, v[3], KindRank(v), v[4], v[2]>>

RECURSIVE LexLess(_, _, _)
LexLess(a, b, i) ==
    IF i > Len(a) THEN FALSE
    ELSE a[i] < b[i] \/ (a[i] = b[i] /\ LexLess(a, b, i + 1))

Before(u, v) == LexLess(SortKey(u), SortKey(v), 1)

RECURSIVE SortVars(_)
SortVars(S) ==
    IF S = {} THEN <<>>
    ELSE LET v == CHOOSE u \in S : \A w \in S \ {u} : Before(u, w)
         IN <<v>> \o SortVars(S \ {v})

\* a sum of variables with an upper bound: once passed, it stays passed
UpperBounded(c) == c.neg = {} /\ c.enf = {} /\ c.rel \in {"<=", "=="}

RECURSIVE Search(_, _, _, _, _)
Search(T, i, order, closeAt, capAt) ==
    IF i > Len(order) THEN {T}
    ELSE LET v == order[i]
             zero == IF \A c \in closeAt[i] : Holds(c, T)
                     THEN Search(T, i + 1, order, closeAt, capAt) ELSE {}
             one == IF /\ \A c \in capAt[i] : Count(c.pos, T \cup {v}) <= c.rhs
                       /\ \A c \in closeAt[i] : Holds(c, T \cup {v})
                    THEN Search(T \cup {v}, i + 1, order, closeAt, capAt) ELSE {}
         IN zero \cup one

Solutions(V, C) ==
    LET order == SortVars(V)
        place == [v \in V |-> CHOOSE i \in 1..Len(order) : order[i] = v]
        last(c) == CHOOSE i \in {place[v] : v \in VarsOf(c)} :
                      \A j \in {place[v] : v \in VarsOf(c)} : j <= i
        closeAt == [i \in 1..Len(order) |->
                      {c \in C : VarsOf(c) # {} /\ last(c) = i}]
        capAt == [i \in 1..Len(order) |->
                      {c \in C : UpperBounded(c) /\ order[i] \in c.pos}]
    IN IF /\ \A c \in C : VarsOf(c) \subseteq V
          /\ \A c \in C : VarsOf(c) = {} => Holds(c, {})
       THEN Search({}, 1, order, closeAt, capAt)
       ELSE {}

(***************************************************************************)
(* constraints.py: NurseConstraintLibrary.  Each rule is the set of        *)
(* constraints it adds.                                                    *)
(***************************************************************************)
\* mutation of single_nurse_per_shift: AddAtMostOne in place of AddExactlyOne
single_nurse_per_shift_AtMostOne(nurses, ndays, shifts) ==
    {AddAtMostOne({X(n, d, s) : n \in nurses}) : d \in 0..(ndays - 1), s \in shifts}

single_nurse_per_shift(nurses, ndays, shifts) ==
    {AddExactlyOne({X(n, d, s) : n \in nurses}) : d \in 0..(ndays - 1), s \in shifts}

\* days[::period_length] of days = range(ndays)
PeriodStarts(ndays, period_length) ==
    {d \in 0..(ndays - 1) : d % period_length = 0}

\* mutation of period_days: range(period, period + period_length)
period_days_NoTruncation(period, period_length, ndays) ==
    period..(period + period_length - 1)

\* range(period, min(period + period_length, len(days)))
period_days(period, period_length, ndays) ==
    period..(Min(period + period_length, ndays) - 1)

\* mutation of limit_shifts_per_period: one shift more than the limit passes
limit_shifts_per_period_OneMore(nurses, ndays, shifts, period_length, shift_limit) ==
    {Add({X(n, d, s) : d \in period_days(p, period_length, ndays), s \in shifts},
         "<=", shift_limit + 1)
        : p \in PeriodStarts(ndays, period_length), n \in nurses}

limit_shifts_per_period(nurses, ndays, shifts, period_length, shift_limit) ==
    {Add({X(n, d, s) : d \in period_days(p, period_length, ndays), s \in shifts},
         "<=", shift_limit)
        : p \in PeriodStarts(ndays, period_length), n \in nurses}

\* the Team cell of a row read from a csv file that has none (pandas NaN)
NaN == "nan"

\* nurses.groupby('Team'): the keys of the groups; rows whose key is NaN are
\* in no group (dropna=True is the default)
TeamKeys(nurses, team) == {team[n] : n \in nurses} \ {NaN}

\* nurses.groupby('Team'): the nurses of one team
TeamGroup(nurses, team, t) == {n \in nurses : team[n] = t}

\* mutation of limit_nurse_per_team_per_day: the first day is left out
limit_nurse_per_team_per_day_SkipFirstDay(nurses, team, ndays, shifts, nurse_limit) ==
    {Add({X(n, d, s) : n \in TeamGroup(nurses, team, t), s \in shifts},
         "<=", nurse_limit)
        : d \in 1..(ndays - 1), t \in TeamKeys(nurses, team)}

limit_nurse_per_team_per_day(nurses, team, ndays, shifts, nurse_limit) ==
    {Add({X(n, d, s) : n \in TeamGroup(nurses, team, t), s \in shifts},
         "<=", nurse_limit)
        : d \in 0..(ndays - 1), t \in TeamKeys(nurses, team)}

min_shifts_per_nurse(num_shifts, num_days, num_nurses) ==
    (num_shifts * num_days) \div num_nurses

\* mutation of max_shifts_per_nurse: the tolerance is never added
max_shifts_per_nurse_NoTolerance(num_shifts, num_days, num_nurses, tolerance) ==
    min_shifts_per_nurse(num_shifts, num_days, num_nurses)

max_shifts_per_nurse(num_shifts, num_days, num_nurses, tolerance) ==
    IF (num_shifts * num_days) % num_nurses = 0
    THEN min_shifts_per_nurse(num_shifts, num_days, num_nurses)
    ELSE min_shifts_per_nurse(num_shifts, num_days, num_nurses) + tolerance

\* days is the day subset (a list of day indices), shifts the keys of daily_shifts
distribute_shifts_evenly(nurses, days, shifts, num_nurses, tolerance) ==
    UNION {{Add({X(n, d, s) : d \in days, s \in shifts}, ">=",
                min_shifts_per_nurse(Cardinality(shifts), Cardinality(days), num_nurses)),
            Add({X(n, d, s) : d \in days, s \in shifts}, "<=",
                max_shifts_per_nurse(Cardinality(shifts), Cardinality(days),
                                     num_nurses, tolerance))}
           : n \in nurses}

\* mutation of max_shifts_per_week: range(week_start, week_start + 7)
max_shifts_per_week_NoTruncation(nurses, ndays, shifts, num_days, shift_limit) ==
    {Add({X(n, d, s) : d \in week_start..(week_start + 6), s \in shifts},
         "<=", shift_limit)
        : week_start \in PeriodStarts(ndays, 7), n \in nurses}

max_shifts_per_week(nurses, ndays, shifts, num_days, shift_limit) ==
    {Add({X(n, d, s) : d \in week_start..(Min(week_start + 7, num_days) - 1), s \in shifts},
         "<=", shift_limit)
        : week_start \in PeriodStarts(ndays, 7), n \in nurses}

\* mutation of limit_consecutive_shifts: the window is the day itself
limit_consecutive_shifts_SingleDay(nurses, ndays, num_days, limited_shifts, num_consecutive) ==
    {AddAtMostOne({X(n, d, s) : s \in limited_shifts})
        : d \in 0..(ndays - 1), n \in nurses}

limit_consecutive_shifts(nurses, ndays, num_days, limited_shifts, num_consecutive) ==
    {AddAtMostOne({X(n, d + offset, s)
                     : offset \in 0..(Min(num_consecutive, num_days - d) - 1),
                       s \in limited_shifts})
        : d \in 0..(ndays - 1), n \in nurses}

\* mutation of limit_shifts_after_shifts: .OnlyEnforceIf(worked_shifts_first) left out
limit_shifts_after_shifts_Unconditional(t, nurses, ndays, first_shifts, limited_shifts, num_consecutive, allowed_num_shifts) ==
    UNION {{AddMaxEquality(W(t, n, d), {X(n, d, s) : s \in first_shifts}),
            Add({X(n, d + offset, s)
                   : offset \in 0..(Min(num_consecutive, ndays - d) - 1),
                     s \in limited_shifts},
                "==", allowed_num_shifts)}
           : d \in 0..(ndays - 1), n \in nurses}

\* t tags the call: every call creates its own worked_shift_n<nurse>_d<day> variables
limit_shifts_after_shifts(t, nurses, ndays, first_shifts, limited_shifts, num_consecutive, allowed_num_shifts) ==
    UNION {{AddMaxEquality(W(t, n, d), {X(n, d, s) : s \in first_shifts}),
            AddIf({X(n, d + offset, s)
                     : offset \in 0..(Min(num_consecutive, ndays - d) - 1),
                       s \in limited_shifts},
                  "==", allowed_num_shifts, W(t, n, d))}
           : d \in 0..(ndays - 1), n \in nurses}

limit_shifts_after_shifts_vars(t, nurses, ndays) ==
    {W(t, n, d) : n \in nurses, d \in 0..(ndays - 1)}

\* the days of range(ndays) whose weekday name is start_shift_day
StartDays(ndays, start_day, start_shift_day) ==
    {d \in 0..(ndays - 1) : what_day_name(d, start_day) = start_shift_day}

\* mutation of BlockDays: range(1, num_consecutive - 1)
BlockDays_OneShort(d, num_consecutive, num_days) ==
    {b \in {d + day_offset : day_offset \in 1..(num_consecutive - 2)} : b < num_days}

\* for day_offset in range(1, num_consecutive): if shift_day_index < num_days
BlockDays(d, num_consecutive, num_days) ==
    {b \in {d + day_offset : day_offset \in 1..(num_consecutive - 1)} : b < num_days}

\* mutation of RestDaysAfter: the test rest_day_index < num_days left out
RestDaysAfter_NoCheck(d, num_consecutive, num_days) ==
    {d + num_consecutive + rest_offset : rest_offset \in 0..1}

\* for rest_offset in range(2): if rest_day_index < num_days
RestDaysAfter(d, num_consecutive, num_days) ==
    {r \in {d + num_consecutive + rest_offset : rest_offset \in 0..1} : r < num_days}

assign_consecutive_shifts(t, nurses, ndays, shifts, start_day, num_days, start_shift_day, shift_index, num_consecutive) ==
    UNION {{AddEq(W(t, n, d), X(n, d, shift_index))}
           \cup {AddEq(X(n, b, shift_index), X(n, d, shift_index))
                   : b \in BlockDays(d, num_consecutive, num_days)}
           \cup {AddIf({X(n, r, s) : s \in shifts}, "==", 0, W(t, n, d))
                   : r \in RestDaysAfter(d, num_consecutive, num_days)}
           \cup {AddEq(R(n, r), W(t, n, d))
                   : r \in RestDaysAfter(d, num_consecutive, num_days)}
           : d \in StartDays(ndays, start_day, start_shift_day), n \in nurses}

assign_consecutive_shifts_vars(t, nurses, ndays, start_day, start_shift_day) ==
    {W(t, n, d) : n \in nurses, d \in StartDays(ndays, start_day, start_shift_day)}

\* the sum 3, 4, 3, ... over range(blocks_per_nurse)
RECURSIVE AlternatingSum(_)
AlternatingSum(blocks) ==
    IF blocks <= 0 THEN 0
    ELSE AlternatingSum(blocks - 1) + (IF (blocks - 1) % 2 = 0 THEN 3 ELSE 4)

night_total_blocks(num_days) ==
    ((num_days \div 7) + ((num_days % 7) \div 3)) + (num_days \div 7)

night_min_shifts(num_days, num_nurses) ==
    AlternatingSum(night_total_blocks(num_days) \div num_nurses)

night_max_shifts(num_days, num_nurses) ==
    IF num_days % num_nurses = 0
    THEN night_min_shifts(num_days, num_nurses)
    ELSE night_min_shifts(num_days, num_nurses) + 4

distribute_night_shifts_evenly(nurses, ndays, num_nurses, shift_index) ==
    UNION {{Add({X(n, d, shift_index) : d \in 0..(ndays - 1)}, ">=",
                night_min_shifts(ndays, num_nurses)),
            Add({X(n, d, shift_index) : d \in 0..(ndays - 1)}, "<=",
                night_max_shifts(ndays, num_nurses))}
           : n \in nurses}

(***************************************************************************)
(* Inputs.  Nurses.csv is not part of the sources: the roster is drawn     *)
(* from small sets.                                                        *)
(***************************************************************************)
TeamNames == <<"A", "A", "B", "C">>

\* the Team column: nurse 0 and 1 in team A, nurse 2 in B, nurse 3 in C
TeamColumn(n) == [i \in 0..(n - 1) |-> TeamNames[i + 1]]

Config(n, nd, k, sd, rest) ==
    [num_nurses |-> n, team |-> TeamColumn(n), num_days |-> nd,
     start_day |-> sd, num_shifts |-> k, rest |-> rest]

\* the variables of the CpModel before any rule call
Universe(c) == ShiftVars(c) \cup (IF c.rest THEN RestVars(c) ELSE {})

\* a rule library call on a model that holds the shifts dictionary only
LibConfigs ==
    {Config(n, nd, k, "Monday", FALSE)
        : n \in 1..MaxNurses, nd \in 1..MaxDays, k \in 1..MaxShifts}

SmallLibConfigs ==
    {c \in LibConfigs : c.num_nurses * c.num_days * c.num_shifts <= MaxBits}

InitWith(configs) ==
    /\ cfg \in configs
    /\ model = {}
    /\ aux = {}
    /\ pc = "constructed"
    /\ status = "none"
    /\ val = {}
    /\ attrs = {}
    /\ solution = {}
    /\ assigned_rests = {}
    /\ roster_written = FALSE
    /\ nurse_schedules = <<>>
    /\ call = NoCall
    /\ err = "none"
    /\ applied_constraints = <<>>
    /\ history = <<>>
    /\ applied = <<>>

(***************************************************************************)
(* solver.Solve(model) applied to the model a rule call has filled.        *)
(***************************************************************************)
SolveLib ==
    /\ pc = "built"
    /\ \E T \in Solutions(Universe(cfg) \cup aux, model) :
          /\ val' = T
          /\ status' = "OPTIMAL"
    /\ pc' = "solved"
    /\ UNCHANGED <<cfg, model, aux, attrs, solution, assigned_rests,
                   roster_written, nurse_schedules, call, err>>
    /\ UNCHANGED regVars

Call_single_nurse_per_shift ==
    /\ pc = "constructed"
    /\ model' = model \cup single_nurse_per_shift(NurseIds(cfg), cfg.num_days,
                                                  daily_shifts(cfg))
    /\ call' = [rule |-> "single_nurse_per_shift"]
    /\ pc' = "built"
    /\ UNCHANGED <<cfg, aux, err>>
    /\ UNCHANGED runVars
    /\ UNCHANGED regVars

InitCoverage == InitWith(SmallLibConfigs)
NextCoverage == Call_single_nurse_per_shift \/ SolveLib
SpecCoverage == InitCoverage /\ [][NextCoverage]_vars

\* C1: in every assignment that satisfies single_nurse_per_shift, every day
\* and every shift type has exactly one nurse whose shift variable is 1.
C1_ExactlyOneNursePerShift ==
    (pc = "solved" /\ call.rule = "single_nurse_per_shift") =>
        \A d \in all_days(cfg), s \in daily_shifts(cfg) :
            Cardinality({n \in NurseIds(cfg) : X(n, d, s) \in val}) = 1

\* a solved roster of two nurses over two days and two shift types in which
\* both nurses work
C1_Witness ==
    /\ pc = "solved" /\ call.rule = "single_nurse_per_shift"
    /\ cfg.num_nurses = 2 /\ cfg.num_days = 2 /\ cfg.num_shifts = 2
    /\ \A n \in NurseIds(cfg) : \E d \in all_days(cfg), s \in daily_shifts(cfg) :
          X(n, d, s) \in val

(***************************************************************************)
(* limit_shifts_per_period.  days[::0] raises ValueError before anything   *)
(* is added; every other value is used as it is.                           *)
(***************************************************************************)
Call_limit_shifts_per_period(period_length, shift_limit) ==
    /\ pc = "constructed"
    /\ call' = [rule |-> "limit_shifts_per_period",
                period_length |-> period_length, shift_limit |-> shift_limit]
    /\ IF period_length = 0
       THEN /\ err' = "ValueError"
            /\ pc' = "raised"
            /\ model' = model
       ELSE /\ err' = "none"
            /\ pc' = "built"
            /\ model' = model \cup limit_shifts_per_period(
                   NurseIds(cfg), cfg.num_days, daily_shifts(cfg),
                   period_length, shift_limit)
    /\ UNCHANGED <<cfg, aux>>
    /\ UNCHANGED runVars
    /\ UNCHANGED regVars

InitPeriod == InitWith(SmallLibConfigs)
NextPeriod ==
    \/ \E p \in 1..MaxPeriod, l \in 0..MaxLimit : Call_limit_shifts_per_period(p, l)
    \/ SolveLib
SpecPeriod == InitPeriod /\ [][NextPeriod]_vars

\* the k-th window [k * period_length, min((k + 1) * period_length, N))
Window(k, period_length, N) ==
    {d \in 0..(N - 1) : k * period_length <= d /\ d < (k + 1) * period_length}

WindowIndexes(period_length, N) == 0..((N - 1) \div period_length)

\* the days a constraint sums over
DaysOf(c) == {v[3] : v \in c.pos}

\* C10: limit_shifts_per_period cuts the horizon into the consecutive windows
\* [k*P, min((k+1)*P, N)), which cover every day exactly once, and in every
\* satisfying assignment each nurse's number of shifts of all types inside
\* each window, the truncated last one included, is at most shift_limit.
C10_PeriodCap ==
    (call.rule = "limit_shifts_per_period" /\ pc \in {"built", "solved"}) =>
        LET P == call.period_length
            N == cfg.num_days
        IN /\ {DaysOf(c) : c \in model} = {Window(k, P, N) : k \in WindowIndexes(P, N)}
           /\ \A d \in all_days(cfg) :
                 Cardinality({w \in {DaysOf(c) : c \in model} : d \in w}) = 1
           /\ \A n \in NurseIds(cfg), k \in WindowIndexes(P, N) :
                 \E c \in model :
                    c.pos = {X(n, d, s) : d \in Window(k, P, N), s \in daily_shifts(cfg)}
           /\ pc = "solved" =>
                 \A n \in NurseIds(cfg), k \in WindowIndexes(P, N) :
                    Cardinality({v \in val : v[1] = "x" /\ v[2] = n
                                             /\ v[3] \in Window(k, P, N)})
                        <= call.shift_limit

\* a solved model whose last window is truncated and in which a nurse reaches
\* the limit inside the truncated window
C10_Witness ==
    /\ pc = "solved" /\ call.rule = "limit_shifts_per_period"
    /\ cfg.num_days % call.period_length # 0
    /\ call.period_length > 1
    /\ call.shift_limit > 0
    /\ \E n \in NurseIds(cfg) :
          Cardinality({v \in val : v[1] = "x" /\ v[2] = n
                         /\ v[3] \in Window((cfg.num_days - 1) \div call.period_length,
                                            call.period_length, cfg.num_days)})
              = call.shift_limit

(***************************************************************************)
(* assign_consecutive_shifts.  what_day raises ValueError for a start_day  *)
(* that is no weekday name; shifts[nurse, day, shift_index] raises         *)
(* KeyError for an unknown shift_index on the first start day, after the   *)
(* first NewBoolVar and before the first model.Add; a start_shift_day that *)
(* is no weekday name matches no day.                                      *)
(***************************************************************************)
Call_assign_consecutive_shifts(t, start_shift_day, shift_index, num_consecutive) ==
    /\ pc = "constructed"
    /\ call' = [rule |-> "assign_consecutive_shifts",
                start_shift_day |-> start_shift_day, shift_index |-> shift_index,
                num_consecutive |-> num_consecutive]
    /\ IF cfg.start_day \notin WeekdayNames
       THEN /\ err' = "ValueError"
            /\ pc' = "raised"
            /\ UNCHANGED <<model, aux>>
       ELSE IF /\ shift_index \notin daily_shifts(cfg)
               /\ StartDays(cfg.num_days, cfg.start_day, start_shift_day) # {}
       THEN /\ err' = "KeyError"
            /\ pc' = "raised"
            /\ model' = model
            /\ aux' = aux \cup
                 {W(t, 0, CHOOSE d \in StartDays(cfg.num_days, cfg.start_day, start_shift_day) :
                              \A e \in StartDays(cfg.num_days, cfg.start_day, start_shift_day) :
                                  d <= e)}
       ELSE /\ err' = "none"
            /\ pc' = "built"
            /\ model' = model \cup assign_consecutive_shifts(
                   t, NurseIds(cfg), cfg.num_days, daily_shifts(cfg), cfg.start_day,
                   cfg.num_days, start_shift_day, shift_index, num_consecutive)
            /\ aux' = aux \cup assign_consecutive_shifts_vars(
                   t, NurseIds(cfg), cfg.num_days, cfg.start_day, start_shift_day)
    /\ UNCHANGED cfg
    /\ UNCHANGED runVars
    /\ UNCHANGED regVars

\* the start_shift_day values of scheduler.py
BlockStartNames == {"Monday", "Thursday"}

\* the model holds the shifts and the rest_days dictionaries
BlockConfigs ==
    {Config(n, nd, k, sd, TRUE)
        : n \in 1..MaxNurses, nd \in 1..MaxDays, k \in 1..MaxShifts, sd \in WeekdayNames}

SmallBlockConfigs ==
    {c \in BlockConfigs : c.num_nurses * c.num_days * (c.num_shifts + 1) <= MaxBits}

InitBlock == InitWith(SmallBlockConfigs)
NextBlock ==
    \/ \E ssd \in BlockStartNames, nc \in 1..MaxConsecutive :
          \E idx \in daily_shifts(cfg) : Call_assign_consecutive_shifts(3, ssd, idx, nc)
    \/ SolveLib
SpecBlock == InitBlock /\ [][NextBlock]_vars

Works(n, d, s) == X(n, d, s) \in val

\* C3: under assign_consecutive_shifts, for every nurse and every day d whose
\* weekday name is start_shift_day: a nurse who works shift_index on d works
\* it on every in-horizon day d+1 .. d+num_consecutive-1, and on the in-horizon
\* days d+num_consecutive and d+num_consecutive+1 has no shift of any type and
\* the rest-day flag 1; a nurse who does not work shift_index on d works it on
\* none of those block days and has the rest-day flag 0 on the two days after.
C3_BlockAndRest ==
    (pc = "solved" /\ call.rule = "assign_consecutive_shifts") =>
        LET nc == call.num_consecutive
            idx == call.shift_index
            N == cfg.num_days
        IN \A n \in NurseIds(cfg), d \in all_days(cfg) :
              what_day_name(d, cfg.start_day) = call.start_shift_day =>
                 /\ Works(n, d, idx) =>
                       /\ \A b \in (d + 1)..(d + nc - 1) : b < N => Works(n, b, idx)
                       /\ \A r \in {d + nc, d + nc + 1} : r < N =>
                             /\ \A s \in daily_shifts(cfg) : ~Works(n, r, s)
                             /\ R(n, r) \in val
                 /\ ~Works(n, d, idx) =>
                       /\ \A b \in (d + 1)..(d + nc - 1) : b < N => ~Works(n, b, idx)
                       /\ \A r \in {d + nc, d + nc + 1} : r < N => R(n, r) \notin val

\* a nurse works a whole block of at least two days and both rest days after
\* it lie inside the horizon
C3_Witness ==
    /\ pc = "solved" /\ call.rule = "assign_consecutive_shifts"
    /\ call.num_consecutive >= 2
    /\ \E n \in NurseIds(cfg), d \in all_days(cfg) :
          /\ what_day_name(d, cfg.start_day) = call.start_shift_day
          /\ Works(n, d, call.shift_index)
          /\ d + call.num_consecutive + 1 < cfg.num_days
          /\ R(n, d + call.num_consecutive + 1) \in val

\* C4: assign_consecutive_shifts refers to no shift or rest-day variable whose
\* day index is at or beyond the horizon: block days and rest days that fall
\* there are skipped.
C4_NoDayBeyondHorizon ==
    (call.rule = "assign_consecutive_shifts" /\ pc \in {"built", "solved"}) =>
        \A c \in model : \A v \in VarsOf(c) : 0 <= v[3] /\ v[3] < cfg.num_days

\* a block that starts so close to the end of the horizon that a block day
\* and both rest days fall beyond it, and the call still added constraints
C4_Witness ==
    /\ call.rule = "assign_consecutive_shifts" /\ pc = "built"
    /\ \E d \in all_days(cfg) :
          /\ what_day_name(d, cfg.start_day) = call.start_shift_day
          /\ d + call.num_consecutive - 1 >= cfg.num_days
          /\ model # {}

(***************************************************************************)
(* limit_shifts_after_shifts                                               *)
(***************************************************************************)
Call_limit_shifts_after_shifts(t, first_shifts, limited_shifts, num_consecutive, allowed_num_shifts) ==
    /\ pc = "constructed"
    /\ call' = [rule |-> "limit_shifts_after_shifts",
                tag |-> t, first_shifts |-> first_shifts,
                limited_shifts |-> limited_shifts,
                num_consecutive |-> num_consecutive,
                allowed_num_shifts |-> allowed_num_shifts]
    /\ model' = model \cup limit_shifts_after_shifts(
           t, NurseIds(cfg), cfg.num_days, first_shifts, limited_shifts,
           num_consecutive, allowed_num_shifts)
    /\ aux' = aux \cup limit_shifts_after_shifts_vars(t, NurseIds(cfg), cfg.num_days)
    /\ pc' = "built"
    /\ UNCHANGED <<cfg, err>>
    /\ UNCHANGED runVars
    /\ UNCHANGED regVars

\* shift subsets shaped like those of scheduler.py: first_shifts=[0, 1], limited_shifts=[2]
FirstShiftChoices(c) == {{0}, {s \in daily_shifts(c) : s <= 1}}
LimitedShiftChoices(c) == {{c.num_shifts - 1}, daily_shifts(c)}

InitAfter == InitWith(SmallLibConfigs)
NextAfter ==
    \/ \E first \in FirstShiftChoices(cfg), limited \in LimitedShiftChoices(cfg) :
          \E nc \in 1..MaxConsecutive, allowed \in 0..MaxLimit :
             Call_limit_shifts_after_shifts(12, first, limited, nc, allowed)
    \/ SolveLib
SpecAfter == InitAfter /\ [][NextAfter]_vars

\* the limited_shifts variables of nurse n over the min(nc, N - d) days from d
LimitedWindow(n, d, limited, nc, N) ==
    {X(n, e, s) : e \in d..(d + Min(nc, N - d) - 1), s \in limited}

\* C9: limit_shifts_after_shifts is conditional.  For every nurse n and day d
\* the indicator of (n, d) is the OR of n's first_shifts variables on d; when
\* it is 1, exactly allowed_num_shifts of n's limited_shifts variables over
\* the window of min(num_consecutive, N - d) days from d are 1; when it is 0,
\* the constraint of (n, d) excludes no assignment of the window's variables.
C9_ConditionalLimit ==
    (call.rule = "limit_shifts_after_shifts" /\ pc \in {"built", "solved"}) =>
        LET N == cfg.num_days
            win(n, d) == LimitedWindow(n, d, call.limited_shifts,
                                       call.num_consecutive, N)
            ind(n, d) == W(call.tag, n, d)
        IN /\ pc = "solved" =>
                \A n \in NurseIds(cfg), d \in all_days(cfg) :
                   /\ ind(n, d) \in val <=>
                         \E s \in call.first_shifts : X(n, d, s) \in val
                   /\ ind(n, d) \in val =>
                         Cardinality(win(n, d) \cap val) = call.allowed_num_shifts
           /\ pc = "built" =>
                \A n \in NurseIds(cfg), d \in all_days(cfg) :
                   /\ \E c \in model : c.op = "Add" /\ c.pos = win(n, d)
                   /\ \A c \in model :
                         (c.op = "Add" /\ (c.pos = win(n, d) \/ ind(n, d) \in c.enf)) =>
                            \A S \in SUBSET win(n, d) : Holds(c, S)

\* the indicator is 1 for one day of a nurse and 0 for another day of the same
\* nurse, whose window holds a number of limited shifts other than
\* allowed_num_shifts
C9_Witness ==
    /\ pc = "solved" /\ call.rule = "limit_shifts_after_shifts"
    /\ \E n \in NurseIds(cfg), d, e \in all_days(cfg) :
          /\ W(call.tag, n, d) \in val
          /\ W(call.tag, n, e) \notin val
          /\ Cardinality(LimitedWindow(n, e, call.limited_shifts,
                                       call.num_consecutive, cfg.num_days) \cap val)
                # call.allowed_num_shifts

(***************************************************************************)
(* Parameter values a caller may pass, the invalid ones included.          *)
(***************************************************************************)
ValidateConfigs ==
    {Config(n, nd, k, sd, TRUE)
        : n \in 1..MaxNurses, nd \in 1..MaxDays, k \in 1..MaxShifts,
          sd \in {"Monday", "Wednesday", "Funday"}}

InitValidate == InitWith(ValidateConfigs)
NextValidate ==
    \/ \E p \in 0..MaxPeriod, l \in 0..MaxLimit : Call_limit_shifts_per_period(p, l)
    \/ \E ssd \in BlockStartNames \cup {"Funday"}, nc \in 0..MaxConsecutive :
          \E idx \in 0..cfg.num_shifts : Call_assign_consecutive_shifts(3, ssd, idx, nc)
SpecValidate == InitValidate /\ [][NextValidate]_vars

\* the parameters the specification calls invalid
InvalidCall ==
    CASE call.rule = "limit_shifts_per_period" ->
           call.period_length <= 0 \/ call.shift_limit <= 0
      [] call.rule = "assign_consecutive_shifts" ->
           \/ call.num_consecutive <= 0
           \/ call.shift_index \notin daily_shifts(cfg)
           \/ call.start_shift_day \notin WeekdayNames
           \/ cfg.start_day \notin WeekdayNames
      [] OTHER -> FALSE

\* C8: a rule call with invalid parameters is rejected with an error before
\* any constraint is added, so the constraint set is unchanged.
C8_InvalidParametersRejected ==
    InvalidCall => (err # "none" /\ model = {})

(***************************************************************************)
(* scheduler.py: NurseSchedulingModel, driven by main.py.                   *)
(***************************************************************************)
NumShifts == 3

\* daily_shifts of main.py
ShiftLabel == <<"ED Day 01", "ED Day 02", "ED Nights">>

\* the Team column of the roster: one team per nurse, or nurses 0 and 1 together
TeamColumns(n) ==
    {TeamColumn(n), [i \in 0..(n - 1) |-> <<"A", "B", "C", "D", "E">>[i + 1]]}

RunConfigsOf(nurseCounts, dayCounts) ==
    {[num_nurses |-> n, team |-> tm, num_days |-> nd, start_day |-> sd,
      num_shifts |-> NumShifts, rest |-> TRUE]
        : n \in nurseCounts, nd \in dayCounts, sd \in WeekdayNames,
          tm \in UNION {TeamColumns(m) : m \in nurseCounts}}

RunConfigs ==
    {c \in RunConfigsOf(1..MaxRunNurses, 1..MaxRunDays) :
        DOMAIN c.team = NurseIds(c)}

weekend_days(c) == {d \in all_days(c) : what_day_weekend(d, c.start_day)}
weekday_days(c) == {d \in all_days(c) : ~what_day_weekend(d, c.start_day)}

\* the constraints NurseSchedulingModel.add_constraints adds, Constraint 1 to 13
add_constraints(c) ==
    LET nurses == NurseIds(c)
        N == c.num_days
        shifts == daily_shifts(c)
    IN limit_shifts_per_period(nurses, N, shifts, 1, 1)
       \cup single_nurse_per_shift(nurses, N, shifts)
       \cup assign_consecutive_shifts(3, nurses, N, shifts, c.start_day, N, "Monday", 2, 3)
       \cup assign_consecutive_shifts(4, nurses, N, shifts, c.start_day, N, "Thursday", 2, 4)
       \cup distribute_shifts_evenly(nurses, all_days(c), {0}, c.num_nurses, 1)
       \cup distribute_night_shifts_evenly(nurses, N, c.num_nurses, 2)
       \cup distribute_shifts_evenly(nurses, all_days(c), shifts, c.num_nurses, 1)
       \cup distribute_shifts_evenly(nurses, weekend_days(c), shifts, c.num_nurses, 1)
       \cup distribute_shifts_evenly(nurses, weekday_days(c), shifts, c.num_nurses, 1)
       \cup limit_consecutive_shifts(nurses, N, N, {0, 1}, 2)
       \cup limit_shifts_per_period(nurses, N, shifts, 7, 4)
       \cup limit_shifts_after_shifts(12, nurses, N, {0, 1}, {2}, 2, 0)
       \cup limit_nurse_per_team_per_day(nurses, c.team, N, shifts, 1)

add_constraints_vars(c) ==
    assign_consecutive_shifts_vars(3, NurseIds(c), c.num_days, c.start_day, "Monday")
    \cup assign_consecutive_shifts_vars(4, NurseIds(c), c.num_days, c.start_day, "Thursday")
    \cup limit_shifts_after_shifts_vars(12, NurseIds(c), c.num_days)

AddConstraints ==
    /\ pc = "constructed"
    /\ model' = model \cup add_constraints(cfg)
    /\ aux' = aux \cup add_constraints_vars(cfg)
    /\ call' = [rule |-> "add_constraints"]
    /\ pc' = "built"
    /\ UNCHANGED <<cfg, err>>
    /\ UNCHANGED runVars
    /\ UNCHANGED regVars

\* rota_dict: the (n, d, s) whose variable has value 1
rota_dict(T) == {<<v[2], v[3], v[4]>> : v \in {u \in T : u[1] = "x"}}

\* rests_dict: the (n, d) whose rest variable has value 1
rests_dict(T) == {<<v[2], v[3]>> : v \in {u \in T : u[1] = "r"}}

\* solution.pivot(index='Day', columns='Shift', values='Nurse') raises ValueError
\* on two rows with the same (Day, Shift); rota.columns = [labels] raises
\* ValueError unless every shift type is a column
PivotWorks(sol, c) ==
    /\ \A a, b \in sol : (a[2] = b[2] /\ a[3] = b[3]) => a = b
    /\ \A s \in daily_shifts(c) : \E a \in sol : a[3] = s

\* if status == cp_model.OPTIMAL: the statuses solve() takes as a solution
SuccessStatuses == {"OPTIMAL"}

\* mutation of AfterNoSolution: exit() left out, solve() returns
AfterNoSolution_Returns == "solved"

\* print('ERROR: no solution'); exit()
AfterNoSolution == "exited"

\* self.solution ... self.assigned_rests of the branch status == cp_model.OPTIMAL
SolveExtract(T) ==
    /\ solution' = rota_dict(T)
    /\ IF PivotWorks(rota_dict(T), cfg)
       THEN /\ roster_written' = TRUE
            /\ assigned_rests' = rests_dict(T)
            /\ attrs' = attrs \cup {"solution", "assigned_rests"}
            /\ pc' = "solved"
            /\ err' = "none"
       ELSE /\ roster_written' = FALSE
            /\ assigned_rests' = assigned_rests
            /\ attrs' = attrs \cup {"solution"}
            /\ pc' = "raised"
            /\ err' = "ValueError"

SolveNoSolution ==
    /\ pc' = AfterNoSolution
    /\ UNCHANGED <<attrs, solution, assigned_rests, roster_written, err>>

\* solve() called at one of the positions of from; the solver answers OPTIMAL
\* or FEASIBLE with a satisfying assignment, INFEASIBLE when there is none,
\* or UNKNOWN when it stopped without an answer
Solve(from) ==
    /\ pc \in from
    /\ LET found == Solutions(Universe(cfg) \cup aux, model)
       IN \/ \E T \in found :
                \E st \in {"OPTIMAL", "FEASIBLE"} :
                   /\ status' = st
                   /\ val' = T
                   /\ IF st \in SuccessStatuses THEN SolveExtract(T) ELSE SolveNoSolution
          \/ /\ found = {}
             /\ status' = "INFEASIBLE"
             /\ val' = val
             /\ SolveNoSolution
          \/ /\ status' = "UNKNOWN"
             /\ val' = val
             /\ SolveNoSolution
    /\ UNCHANGED <<cfg, model, aux, nurse_schedules, call>>
    /\ UNCHANGED regVars

\* the shift types nurse n has in the solution on day d
ShiftsOn(n, d) == {a[3] : a \in {b \in solution : b[1] = n /\ b[2] = d}}

\* the (nurse, day) cells with more than one row of the solution
Ambiguous == {cell \in NurseIds(cfg) \X all_days(cfg) :
                 Cardinality(ShiftsOn(cell[1], cell[2])) > 1}

\* generate_reports -> create_schedules_per_nurse: '--', then the label of the
\* assigned shift (the last row written wins), then 'Rest Day' over it
GenerateReports ==
    /\ pc = "solved"
    /\ attrs' = attrs \cup {"nurse_schedules"}
    /\ IF "solution" \notin attrs
       THEN /\ nurse_schedules' = <<>>
            /\ err' = "AttributeError"
            /\ pc' = "raised"
       ELSE /\ \E last \in [Ambiguous -> daily_shifts(cfg)] :
                 /\ \A cell \in Ambiguous : last[cell] \in ShiftsOn(cell[1], cell[2])
                 /\ nurse_schedules' =
                      [n \in NurseIds(cfg) |-> [d \in all_days(cfg) |->
                          IF <<n, d>> \in assigned_rests THEN "Rest Day"
                          ELSE IF ShiftsOn(n, d) = {} THEN "--"
                          ELSE IF <<n, d>> \in Ambiguous
                               THEN ShiftLabel[last[<<n, d>>] + 1]
                          ELSE ShiftLabel[(CHOOSE s \in ShiftsOn(n, d) : TRUE) + 1]]]
            /\ err' = "none"
            /\ pc' = "reported"
    /\ UNCHANGED <<cfg, model, aux, status, val, solution, assigned_rests,
                   roster_written, call>>
    /\ UNCHANGED regVars

\* main.py: add_constraints(), solve(), generate_reports(), in this order
Init == InitWith(RunConfigs)
Next ==
    \/ AddConstraints
    \/ Solve({"built"})
    \/ GenerateReports
Spec == Init /\ [][Next]_vars

\* C2: in every solution solve() extracts for the rule set of add_constraints,
\* a nurse whose rest-day variable is 1 on a day has no shift of any type on
\* that day, so no worked day is labelled 'Rest Day' in the nurse's schedule.
C2_RestDayHasNoShift ==
    /\ {"solution", "assigned_rests"} \subseteq attrs =>
          \A n \in NurseIds(cfg), d \in all_days(cfg) :
             <<n, d>> \in assigned_rests =>
                \A s \in daily_shifts(cfg) : <<n, d, s>> \notin solution
    /\ pc = "reported" =>
          \A n \in NurseIds(cfg), d \in all_days(cfg) :
             nurse_schedules[n][d] = "Rest Day" =>
                \A s \in daily_shifts(cfg) : <<n, d, s>> \notin solution

\* C5: on a solver status of OPTIMAL or FEASIBLE, solve() extracts the
\* solution, exactly the (nurse, day, shift) whose variable is 1, and the
\* rest-day table, exactly the (nurse, day) whose rest variable is 1.
C5_BothSuccessStatusesExtract ==
    status \in {"OPTIMAL", "FEASIBLE"} =>
        /\ {"solution", "assigned_rests"} \subseteq attrs
        /\ solution = {<<n, d, s>> \in NurseIds(cfg) \X all_days(cfg) \X daily_shifts(cfg) :
                          X(n, d, s) \in val}
        /\ assigned_rests = {<<n, d>> \in NurseIds(cfg) \X all_days(cfg) : R(n, d) \in val}

\* C6: when the solver returns INFEASIBLE or UNKNOWN, solve() ends the run:
\* no solution and no rest-day table is set, no roster is written and the
\* reports are never generated.
C6_FailureLeavesNothing ==
    status \in {"INFEASIBLE", "UNKNOWN"} =>
        /\ attrs = {}
        /\ solution = {}
        /\ assigned_rests = {}
        /\ ~roster_written
        /\ nurse_schedules = <<>>
        /\ pc = "exited"

\* the solver proved a model with all thirteen constraints infeasible and the
\* run has ended
C6_Witness ==
    /\ status = "INFEASIBLE"
    /\ call.rule = "add_constraints"
    /\ model # {}
    /\ pc = "exited"

(***************************************************************************)
(* A caller of the class who may call solve() before add_constraints().    *)
(***************************************************************************)
ApiConfigs ==
    {c \in RunConfigsOf(1..MaxNurses, 1..MaxDays) :
        /\ DOMAIN c.team = NurseIds(c)
        /\ c.num_nurses * c.num_days * (c.num_shifts + 1) <= MaxBits}

InitApi == InitWith(ApiConfigs)
NextApi ==
    \/ AddConstraints
    \/ Solve({"constructed", "built"})
    \/ GenerateReports
SpecApi == InitApi /\ [][NextApi]_vars

\* C7: solve() on an orchestrator whose rules have not been applied fails
\* with a state error, does not invoke the solver and produces no solution.
C7_SolveBeforeBuildFails ==
    (call.rule = "none" /\ pc # "constructed") =>
        /\ err = "StateError"
        /\ status = "none"
        /\ "solution" \notin attrs

(***************************************************************************)
(* distribute_shifts_evenly.  days is any list of day indices (the whole   *)
(* horizon, its weekdays or its weekend days in scheduler.py), num_nurses  *)
(* is a parameter of its own, next to the nurses data frame.               *)
(***************************************************************************)
Call_distribute_shifts_evenly(days, shifts, num_nurses, tolerance) ==
    /\ pc = "constructed"
    /\ call' = [rule |-> "distribute_shifts_evenly", days |-> days, shifts |-> shifts,
                num_nurses |-> num_nurses, tolerance |-> tolerance]
    /\ model' = model \cup distribute_shifts_evenly(NurseIds(cfg), days, shifts,
                                                    num_nurses, tolerance)
    /\ pc' = "built"
    /\ UNCHANGED <<cfg, aux, err>>
    /\ UNCHANGED runVars
    /\ UNCHANGED regVars

EvenConfigs ==
    {c \in {Config(n, nd, k, sd, FALSE)
               : n \in 1..MaxNurses, nd \in 1..MaxEvenDays, k \in 1..MaxShifts,
                 sd \in {"Monday", "Friday"}} :
        c.num_nurses * c.num_days * c.num_shifts <= MaxBits}

\* the day subsets scheduler.py passes: all_days, weekday_days, weekend_days
DaySubsets(c) == {all_days(c), weekday_days(c), weekend_days(c)}

InitEven == InitWith(EvenConfigs)
NextEven ==
    \/ \E days \in DaySubsets(cfg), shifts \in {daily_shifts(cfg), {0}} :
          \E nn \in 1..MaxRunNurses, tol \in 0..MaxLimit :
             Call_distribute_shifts_evenly(days, shifts, nn, tol)
    \/ SolveLib
SpecEven == InitEven /\ [][NextEven]_vars

\* the number of shifts of the subset a nurse works on the days of the subset
WorkedIn(n, days, shifts) ==
    Cardinality({v \in val : v[1] = "x" /\ v[2] = n /\ v[3] \in days /\ v[4] \in shifts})

\* C11: distribute_shifts_evenly bounds each nurse's total over the day subset
\* and the shift subset to [min, max], min = floor(|shifts| * |days| / num_nurses)
\* and max = min when the division is exact, min + tolerance otherwise; for 10
\* days, 3 nurses, 1 shift type and tolerance 1 the bounds are 3 and 4.
C11_EvenBounds ==
    (call.rule = "distribute_shifts_evenly" /\ pc \in {"built", "solved"}) =>
        LET total == Cardinality(call.shifts) * Cardinality(call.days)
            lo == total \div call.num_nurses
            hi == IF lo * call.num_nurses = total THEN lo ELSE lo + call.tolerance
            sum(n) == {X(n, d, s) : d \in call.days, s \in call.shifts}
        IN /\ \A n \in NurseIds(cfg) :
                 /\ \E c \in model : c.pos = sum(n) /\ c.rel = ">=" /\ c.rhs = lo
                 /\ \E c \in model : c.pos = sum(n) /\ c.rel = "<=" /\ c.rhs = hi
           /\ \A c \in model : c.rhs = (IF c.rel = ">=" THEN lo ELSE hi)
           /\ (/\ Cardinality(call.days) = 10 /\ Cardinality(call.shifts) = 1
               /\ call.num_nurses = 3 /\ call.tolerance = 1) =>
                  \A c \in model : c.rhs = (IF c.rel = ">=" THEN 3 ELSE 4)
           /\ pc = "solved" =>
                 \A n \in NurseIds(cfg) :
                    /\ lo <= WorkedIn(n, call.days, call.shifts)
                    /\ WorkedIn(n, call.days, call.shifts) <= hi

\* 10 days, 3 nurses, 1 shift type, tolerance 1: a nurse reaches the upper
\* bound of 4 shifts
C11_Witness ==
    /\ pc = "solved" /\ call.rule = "distribute_shifts_evenly"
    /\ Cardinality(call.days) = 10 /\ Cardinality(call.shifts) = 1
    /\ call.num_nurses = 3 /\ call.tolerance = 1
    /\ \E n \in NurseIds(cfg) : WorkedIn(n, call.days, call.shifts) = 4

(***************************************************************************)
(* distribute_night_shifts_evenly, called as scheduler.py calls it: with   *)
(* the number of nurses of the data frame.                                 *)
(***************************************************************************)
Call_distribute_night_shifts_evenly(shift_index) ==
    /\ pc = "constructed"
    /\ call' = [rule |-> "distribute_night_shifts_evenly", shift_index |-> shift_index]
    /\ model' = model \cup distribute_night_shifts_evenly(
           NurseIds(cfg), cfg.num_days, cfg.num_nurses, shift_index)
    /\ pc' = "built"
    /\ UNCHANGED <<cfg, aux, err>>
    /\ UNCHANGED runVars
    /\ UNCHANGED regVars

NightConfigs ==
    {c \in {Config(n, nd, k, "Monday", FALSE)
               : n \in 1..MaxNurses, nd \in 1..MaxNightDays, k \in 1..MaxShifts} :
        c.num_nurses * c.num_days * c.num_shifts <= MaxBits}

InitNight == InitWith(NightConfigs)
NextNight ==
    \/ \E idx \in daily_shifts(cfg) : Call_distribute_night_shifts_evenly(idx)
    \/ SolveLib
SpecNight == InitNight /\ [][NextNight]_vars

\* C12: distribute_night_shifts_evenly counts horizon // 7 pairs of a 3-day
\* and a 4-day block plus one more 3-day block when horizon % 7 >= 3, takes
\* min as the sum 3, 4, 3, ... over the nurse's share total // num_nurses of
\* the blocks and max = min when num_nurses divides the horizon, min + 4
\* otherwise, and bounds every nurse's count of shift_index over the horizon
\* to [min, max].
C12_NightBounds ==
    (call.rule = "distribute_night_shifts_evenly" /\ pc \in {"built", "solved"}) =>
        LET N == cfg.num_days
            blocks == 2 * (N \div 7) + (IF N % 7 >= 3 THEN 1 ELSE 0)
            share == blocks \div cfg.num_nurses
            lo == 3 * ((share + 1) \div 2) + 4 * (share \div 2)
            hi == IF N % cfg.num_nurses = 0 THEN lo ELSE lo + 4
            nights(n) == {X(n, d, call.shift_index) : d \in all_days(cfg)}
        IN /\ \A n \in NurseIds(cfg) :
                 /\ \E c \in model : c.pos = nights(n) /\ c.rel = ">=" /\ c.rhs = lo
                 /\ \E c \in model : c.pos = nights(n) /\ c.rel = "<=" /\ c.rhs = hi
           /\ pc = "solved" =>
                 \A n \in NurseIds(cfg) :
                    /\ lo <= Cardinality(nights(n) \cap val)
                    /\ Cardinality(nights(n) \cap val) <= hi

(***************************************************************************)
(* limit_consecutive_shifts, called with num_days = len(days).             *)
(***************************************************************************)
Call_limit_consecutive_shifts(limited_shifts, num_consecutive) ==
    /\ pc = "constructed"
    /\ call' = [rule |-> "limit_consecutive_shifts", limited_shifts |-> limited_shifts,
                num_consecutive |-> num_consecutive]
    /\ model' = model \cup limit_consecutive_shifts(
           NurseIds(cfg), cfg.num_days, cfg.num_days, limited_shifts, num_consecutive)
    /\ pc' = "built"
    /\ UNCHANGED <<cfg, aux, err>>
    /\ UNCHANGED runVars
    /\ UNCHANGED regVars

InitConsecutive == InitWith(SmallLibConfigs)
NextConsecutive ==
    \/ \E limited \in {{0}, daily_shifts(cfg)}, nc \in 1..MaxConsecutive :
          Call_limit_consecutive_shifts(limited, nc)
    \/ SolveLib
SpecConsecutive == InitConsecutive /\ [][NextConsecutive]_vars

\* C13: under limit_consecutive_shifts, for every nurse and day d at most one
\* of the nurse's limited_shifts variables over the days d .. d + min(
\* num_consecutive, N - d) - 1 is 1; no variable of a day >= N is referenced
\* and the shifts outside limited_shifts are not restricted.
C13_AtMostOneInWindow ==
    (call.rule = "limit_consecutive_shifts" /\ pc \in {"built", "solved"}) =>
        LET N == cfg.num_days
            others == {v \in ShiftVars(cfg) : v[4] \notin call.limited_shifts}
        IN /\ \A c \in model : \A v \in VarsOf(c) :
                 0 <= v[3] /\ v[3] < N /\ v[4] \in call.limited_shifts
           /\ \A n \in NurseIds(cfg), d \in all_days(cfg) :
                 \E c \in model :
                    c.pos = LimitedWindow(n, d, call.limited_shifts, call.num_consecutive, N)
           /\ \A T \in SUBSET others : \A c \in model : Holds(c, T)
           /\ pc = "solved" =>
                 \A n \in NurseIds(cfg), d \in all_days(cfg) :
                    Cardinality(LimitedWindow(n, d, call.limited_shifts,
                                              call.num_consecutive, N) \cap val) <= 1

\* a nurse works the limited shift 0 on a day and the unrestricted shift 1 on
\* that day and on the next, under a window of at least two days
C13_Witness ==
    /\ pc = "solved" /\ call.rule = "limit_consecutive_shifts"
    /\ call.num_consecutive >= 2 /\ call.limited_shifts = {0}
    /\ \E n \in NurseIds(cfg), d \in all_days(cfg) :
          /\ d + 1 < cfg.num_days
          /\ {X(n, d, 0), X(n, d, 1), X(n, d + 1, 1)} \subseteq val

(***************************************************************************)
(* limit_nurse_per_team_per_day.  The roster comes from a csv file; a row  *)
(* may have an empty Team cell.                                            *)
(***************************************************************************)
Call_limit_nurse_per_team_per_day(nurse_limit) ==
    /\ pc = "constructed"
    /\ call' = [rule |-> "limit_nurse_per_team_per_day", nurse_limit |-> nurse_limit]
    /\ model' = model \cup limit_nurse_per_team_per_day(
           NurseIds(cfg), cfg.team, cfg.num_days, daily_shifts(cfg), nurse_limit)
    /\ pc' = "built"
    /\ UNCHANGED <<cfg, aux, err>>
    /\ UNCHANGED runVars
    /\ UNCHANGED regVars

\* the Team column with every cell filled, and with the last row's cell empty
TeamColumnsRead(n) == {TeamColumn(n), [TeamColumn(n) EXCEPT ![n - 1] = NaN]}

TeamConfigs ==
    {[c EXCEPT !.team = tm] : c \in SmallLibConfigs, tm \in UNION {TeamColumnsRead(m) : m \in 1..MaxNurses}}

InitTeam == InitWith({c \in TeamConfigs : DOMAIN c.team = NurseIds(c)})
NextTeam ==
    \/ \E limit \in 1..MaxLimit : Call_limit_nurse_per_team_per_day(limit)
    \/ SolveLib
SpecTeam == InitTeam /\ [][NextTeam]_vars

\* C14: under limit_nurse_per_team_per_day, for every day and team the number
\* of shift variables at 1 over the team's nurses and all shift types is at
\* most nurse_limit, and every nurse is in exactly one team group, so every
\* nurse's variables of every day are under a cap.
C14_TeamCap ==
    (call.rule = "limit_nurse_per_team_per_day" /\ pc \in {"built", "solved"}) =>
        LET capped(d) == {{v[2] : v \in c.pos} : c \in {b \in model : d \in DaysOf(b)}}
        IN /\ \A n \in NurseIds(cfg), d \in all_days(cfg) :
                 /\ Cardinality({g \in capped(d) : n \in g}) = 1
                 /\ \E c \in model : {X(n, d, s) : s \in daily_shifts(cfg)} \subseteq c.pos
           /\ pc = "solved" =>
                 \A d \in all_days(cfg), t \in TeamKeys(NurseIds(cfg), cfg.team) :
                    Cardinality({v \in val : v[1] = "x" /\ v[3] = d /\ cfg.team[v[2]] = t})
                       <= call.nurse_limit

(***************************************************************************)
(* max_shifts_per_week, called with num_days = len(days).                  *)
(***************************************************************************)
Call_max_shifts_per_week(shift_limit) ==
    /\ pc = "constructed"
    /\ call' = [rule |-> "max_shifts_per_week", shift_limit |-> shift_limit]
    /\ model' = model \cup max_shifts_per_week(
           NurseIds(cfg), cfg.num_days, daily_shifts(cfg), cfg.num_days, shift_limit)
    /\ pc' = "built"
    /\ UNCHANGED <<cfg, aux, err>>
    /\ UNCHANGED runVars
    /\ UNCHANGED regVars

WeekConfigs ==
    {c \in {Config(n, nd, k, sd, FALSE)
               : n \in 1..MaxNurses, nd \in 1..MaxWeekDays, k \in 1..MaxShifts,
                 sd \in {"Monday", "Thursday"}} :
        c.num_nurses * c.num_days * c.num_shifts <= MaxBits}

InitWeek == InitWith(WeekConfigs)
NextWeek ==
    \/ \E limit \in 0..MaxLimit : Call_max_shifts_per_week(limit)
    \/ SolveLib
SpecWeek == InitWeek /\ [][NextWeek]_vars

\* C15: max_shifts_per_week cuts the horizon into 7-day blocks that start at
\* day index 0 whatever the starting weekday, the last block cut at the end
\* of the horizon, and caps each nurse's shifts of all types in each block at
\* shift_limit; with num_days = len(days) it adds exactly the constraints of
\* limit_shifts_per_period with period_length = 7 and the same shift_limit.
C15_WeeklyCap ==
    (call.rule = "max_shifts_per_week" /\ pc \in {"built", "solved"}) =>
        LET N == cfg.num_days
        IN /\ model = limit_shifts_per_period(NurseIds(cfg), N, daily_shifts(cfg),
                                              7, call.shift_limit)
           /\ {DaysOf(c) : c \in model} = {Window(k, 7, N) : k \in WindowIndexes(7, N)}
           /\ \A n \in NurseIds(cfg), k \in WindowIndexes(7, N) :
                 \E c \in model :
                    /\ c.pos = {X(n, d, s) : d \in Window(k, 7, N), s \in daily_shifts(cfg)}
                    /\ c.rel = "<=" /\ c.rhs = call.shift_limit
           /\ pc = "solved" =>
                 \A n \in NurseIds(cfg), k \in WindowIndexes(7, N) :
                    WorkedIn(n, Window(k, 7, N), daily_shifts(cfg)) <= call.shift_limit

\* a horizon that starts on a Thursday and ends inside its second block, in
\* which a nurse reaches the limit
C15_Witness ==
    /\ pc = "solved" /\ call.rule = "max_shifts_per_week"
    /\ cfg.start_day = "Thursday"
    /\ cfg.num_days > 7 /\ cfg.num_days % 7 # 0
    /\ call.shift_limit > 0
    /\ \E n \in NurseIds(cfg) :
          WorkedIn(n, Window(1, 7, cfg.num_days), daily_shifts(cfg)) = call.shift_limit

(***************************************************************************)
(* 'Add-Apply Constraints Basis'/scheduler.py: the registry of rules.      *)
(* self.applied_constraints is a dict: a sequence of entries in insertion  *)
(* order, one per description.  The parameters of an entry are the set of  *)
(* <<name, value>> of **params.                                            *)
(***************************************************************************)
Entry(description, constraint_func, params) ==
    [description |-> description, func |-> constraint_func, params |-> params]

\* mutation of SetItem: the parameters of the entry found are kept next to the new ones
SetItem_Merge(d, entry) ==
    IF \E i \in 1..Len(d) : d[i].description = entry.description
    THEN [i \in 1..Len(d) |->
            IF d[i].description = entry.description
            THEN [entry EXCEPT !.params = entry.params \cup d[i].params]
            ELSE d[i]]
    ELSE Append(d, entry)

\* d[key] = value of a dict: a key found keeps its place and gets the new
\* value, a new key goes to the end
SetItem(d, entry) ==
    IF \E i \in 1..Len(d) : d[i].description = entry.description
    THEN [i \in 1..Len(d) |->
            IF d[i].description = entry.description THEN entry ELSE d[i]]
    ELSE Append(d, entry)

\* add_constraints(description, constraint_func, **params)
RegisterConstraint(description, constraint_func, params) ==
    /\ pc = "constructed"
    /\ Len(history) < MaxRegistrations
    /\ applied_constraints' =
          SetItem(applied_constraints, Entry(description, constraint_func, params))
    /\ history' = Append(history, Entry(description, constraint_func, params))
    /\ UNCHANGED <<cfg, model, aux, pc, call, err, applied>>
    /\ UNCHANGED runVars

ParamNames(e) == {kv[1] : kv \in e.params}

\* the value of a keyword parameter, the default of the signature without it
Param(e, name, default) ==
    IF name \in ParamNames(e) THEN (CHOOSE kv \in e.params : kv[1] = name)[2] ELSE default

\* constraint_func(self.model, self.shifts, self.nurses, self.all_days,
\* self.daily_shifts, **params) binds: every parameter without a default is
\* given and no other name is passed; TypeError otherwise
Accepts(e) ==
    CASE e.func = "limit_shifts_per_period" ->
           ParamNames(e) = {"period_length", "shift_limit"}
      [] e.func = "single_nurse_per_shift" -> ParamNames(e) = {}
      [] e.func = "limit_nurse_per_team_per_day" -> ParamNames(e) \subseteq {"nurse_limit"}

\* the constraints the call of an entry's rule adds
RuleConstraints(c, e) ==
    CASE e.func = "limit_shifts_per_period" ->
           limit_shifts_per_period(NurseIds(c), c.num_days, daily_shifts(c),
                                   Param(e, "period_length", 0), Param(e, "shift_limit", 0))
      [] e.func = "single_nurse_per_shift" ->
           single_nurse_per_shift(NurseIds(c), c.num_days, daily_shifts(c))
      [] e.func = "limit_nurse_per_team_per_day" ->
           limit_nurse_per_team_per_day(NurseIds(c), c.team, c.num_days, daily_shifts(c),
                                        Param(e, "nurse_limit", 1))

\* the place of the first entry whose call raises, Len(d) + 1 when none does
FirstRaising(d) ==
    IF \A i \in 1..Len(d) : Accepts(d[i]) THEN Len(d) + 1
    ELSE CHOOSE i \in 1..Len(d) : ~Accepts(d[i]) /\ \A j \in 1..(i - 1) : Accepts(d[j])

\* apply_constraints(): the rules of self.applied_constraints.values(), in
\* the order of the dict; a caller that follows a script of registrations
\* calls it after the last one
ApplyConstraints ==
    /\ pc = "constructed"
    /\ ("script" \in DOMAIN cfg) => Len(history) = Len(cfg.script)
    /\ LET stop == FirstRaising(applied_constraints)
       IN /\ applied' = applied \o SubSeq(applied_constraints, 1, stop - 1)
          /\ model' = model \cup UNION {RuleConstraints(cfg, applied_constraints[i])
                                           : i \in 1..(stop - 1)}
          /\ IF stop <= Len(applied_constraints)
             THEN err' = "TypeError" /\ pc' = "raised"
             ELSE err' = "none" /\ pc' = "built"
    /\ call' = [rule |-> "apply_constraints"]
    /\ UNCHANGED <<cfg, aux, applied_constraints, history>>
    /\ UNCHANGED runVars

Descriptions == {"Constraint 1", "Constraint 2"}

\* the (rule, parameters) pairs add_constraints is called with; the last one
\* is 'Constraint 3' of main.py, which passes the block parameters to
\* single_nurse_per_shift
RegistryChoices ==
    {[func |-> "limit_shifts_per_period",
      params |-> {<<"period_length", 1>>, <<"shift_limit", 1>>}],
     [func |-> "limit_shifts_per_period",
      params |-> {<<"period_length", 7>>, <<"shift_limit", 4>>}],
     [func |-> "single_nurse_per_shift", params |-> {}],
     [func |-> "limit_nurse_per_team_per_day", params |-> {<<"nurse_limit", 1>>}],
     [func |-> "single_nurse_per_shift",
      params |-> {<<"start_shift_day", "Monday">>, <<"shift_index", 2>>,
                  <<"num_consecutive", 3>>}]}

RegistryConfigs == {c \in SmallLibConfigs : c.num_days <= 2}

InitRegistry == InitWith(RegistryConfigs)
NextRegistry ==
    \/ \E description \in Descriptions, r \in RegistryChoices :
          RegisterConstraint(description, r.func, r.params)
    \/ ApplyConstraints
SpecRegistry == InitRegistry /\ [][NextRegistry]_vars

\* the place in history of the last registration under a description
LastRegistration(description) ==
    CHOOSE i \in 1..Len(history) :
        /\ history[i].description = description
        /\ \A j \in (i + 1)..Len(history) : history[j].description # description

\* C16: registering under a description that is already registered replaces
\* the entry: the registry holds exactly one entry per registered description,
\* equal to the latest (rule, parameters) registered under it, with nothing of
\* an earlier registration kept, and the entries of other descriptions are
\* as they were registered.
C16_RegistrationOverwrites ==
    /\ {applied_constraints[i].description : i \in 1..Len(applied_constraints)}
          = {history[i].description : i \in 1..Len(history)}
    /\ \A i \in 1..Len(history) :
          LET same == {k \in 1..Len(applied_constraints) :
                         applied_constraints[k].description = history[i].description}
          IN /\ Cardinality(same) = 1
             /\ \A k \in same :
                   applied_constraints[k] = history[LastRegistration(history[i].description)]

\* a description registered with period parameters, another description
\* registered after it, then the first one registered again with a rule
\* that takes no parameters
C16_Witness ==
    /\ Len(history) = 3
    /\ history[1].description = history[3].description
    /\ history[2].description # history[1].description
    /\ history[1].params # {} /\ history[3].params = {}
    /\ history[1].func # history[3].func
    /\ Len(applied_constraints) = 2

\* C17: apply_constraints applies every registered rule exactly once, in
\* registration order: an entry is applied before another whenever the
\* registration it comes from was made before the other's (a description
\* registered twice takes the place of its later registration).
C17_AppliedInRegistrationOrder ==
    (call.rule = "apply_constraints" /\ pc = "built") =>
        /\ Len(applied) = Len(applied_constraints)
        /\ \A i \in 1..Len(applied_constraints) :
              Cardinality({k \in 1..Len(applied) : applied[k] = applied_constraints[i]}) = 1
        /\ \A i, j \in 1..Len(applied) :
              i < j => LastRegistration(applied[i].description)
                           < LastRegistration(applied[j].description)

(***************************************************************************)
(* what_day called on its own: utils.py what_day(day, start_day) and       *)
(* 'Part 01'/medmodus.py what_day(start_day, current_day).                 *)
(***************************************************************************)
StartDayInputs == WeekdayNames \cup {"Funday"}

WhatDayInputs ==
    [day : 0..MaxDayIndex, start_day : StartDayInputs, module : {"utils", "medmodus"}]

\* days_of_week.index(start_day) raises ValueError for a name not in the list
WhatDay ==
    /\ pc = "constructed"
    /\ IF cfg.start_day \notin WeekdayNames
       THEN /\ err' = "ValueError"
            /\ pc' = "raised"
            /\ call' = [rule |-> "what_day"]
       ELSE /\ err' = err
            /\ pc' = "returned"
            /\ call' = [rule |-> "what_day",
                        name |-> what_day_name(cfg.day, cfg.start_day),
                        weekend |-> IF cfg.module = "utils"
                                    THEN what_day_weekend(cfg.day, cfg.start_day)
                                    ELSE medmodus_what_day_label(cfg.start_day, cfg.day)]
    /\ UNCHANGED <<cfg, model, aux>>
    /\ UNCHANGED runVars
    /\ UNCHANGED regVars

InitWhatDay == InitWith(WhatDayInputs)
NextWhatDay == WhatDay
SpecWhatDay == InitWhatDay /\ [][NextWhatDay]_vars

\* the Monday..Sunday ordering of the claim
WeekPosition ==
    [name \in {"Monday", "Tuesday", "Wednesday", "Thursday", "Friday", "Saturday", "Sunday"} |->
        CASE name = "Monday" -> 0 [] name = "Tuesday" -> 1 [] name = "Wednesday" -> 2
          [] name = "Thursday" -> 3 [] name = "Friday" -> 4 [] name = "Saturday" -> 5
          [] name = "Sunday" -> 6]

\* C18: what_day returns the weekday at position (index_of(start_day) + day)
\* mod 7 of Monday..Sunday and a weekend flag that is true exactly for
\* Saturday and Sunday, for every day >= 0 and every canonical start name;
\* it fails only when start_day is not one of the seven names.
C18_WhatDay ==
    call.rule = "what_day" =>
        /\ pc = "raised" <=> cfg.start_day \notin DOMAIN WeekPosition
        /\ pc = "raised" => err = "ValueError"
        /\ pc # "raised" =>
              /\ pc = "returned"
              /\ call.name \in DOMAIN WeekPosition
              /\ WeekPosition[call.name] = (WeekPosition[cfg.start_day] + cfg.day) % 7
              /\ IF cfg.module = "utils"
                 THEN call.weekend = (call.name \in {"Saturday", "Sunday"})
                 ELSE call.weekend = "Weekend" <=> call.name \in {"Saturday", "Sunday"}

\* day 8 of a horizon that starts on a Friday is a Saturday
C18_Witness ==
    /\ pc = "returned" /\ call.rule = "what_day"
    /\ cfg.module = "utils" /\ cfg.start_day = "Friday" /\ cfg.day = 8
    /\ call.name = "Saturday" /\ call.weekend = TRUE

(***************************************************************************)
(* A run of 'Add-Apply Constraints Basis': main registers the rules of a   *)
(* script, calls apply_constraints and then solve.  The rest_days          *)
(* variables no rule of the scripts mentions are left out of the search.   *)
(***************************************************************************)
ScenarioConfig(n, nd, k, script) ==
    [num_nurses |-> n, team |-> TeamColumn(n), num_days |-> nd, start_day |-> "Monday",
     num_shifts |-> k, rest |-> FALSE, script |-> script]

\* 'Constraint 1' and 'Constraint 2' of main.py
CoverageScript ==
    <<Entry("Constraint 1", "limit_shifts_per_period",
            {<<"period_length", 1>>, <<"shift_limit", 1>>}),
      Entry("Constraint 2", "single_nurse_per_shift", {})>>

\* with 'Constraint 13' of the rule list of main.py
TeamScript ==
    CoverageScript \o
        <<Entry("Constraint 13", "limit_nurse_per_team_per_day", {<<"nurse_limit", 1>>})>>

\* the next add_constraints call of main
RegisterScripted ==
    /\ "script" \in DOMAIN cfg
    /\ Len(history) < Len(cfg.script)
    /\ LET e == cfg.script[Len(history) + 1]
       IN RegisterConstraint(e.description, e.func, e.params)

\* the days of the variables of S
DaysOfVars(S) == {v[3] : v \in S}

\* one assignment of each day put together, for every choice of them
RECURSIVE Combine(_, _)
Combine(days, parts) ==
    IF days = {} THEN {{}}
    ELSE LET d == CHOOSE x \in days : TRUE
         IN {a \cup b : a \in parts[d], b \in Combine(days \ {d}, parts)}

\* solver.Solve(self.model): the satisfying assignments.  When no constraint
\* mentions two days the model is solved day by day; this is Solutions(V, C)
SolutionsByDay(V, C) ==
    IF \E c \in C : Cardinality(DaysOfVars(VarsOf(c))) > 1 THEN Solutions(V, C)
    ELSE IF \E c \in C : ~(VarsOf(c) \subseteq V) \/ (VarsOf(c) = {} /\ ~Holds(c, {})) THEN {}
    ELSE Combine(DaysOfVars(V),
                 [d \in DaysOfVars(V) |->
                     Solutions({v \in V : v[3] = d},
                               {c \in C : DaysOfVars(VarsOf(c)) = {d}})])

\* solve() of 'Add-Apply Constraints Basis'/scheduler.py: the solution and the
\* rest days are stored when the status is OPTIMAL; any other status prints
\* 'ERROR: no solution' and exits
SolveBasis ==
    /\ pc = "built"
    /\ LET found == SolutionsByDay(Universe(cfg) \cup aux, model)
       IN \/ \E T \in found :
                \E st \in {"OPTIMAL", "FEASIBLE"} :
                   /\ status' = st
                   /\ val' = T
                   /\ IF st = "OPTIMAL"
                      THEN /\ solution' = rota_dict(T)
                           /\ assigned_rests' = rests_dict(T)
                           /\ attrs' = attrs \cup {"solution", "assigned_rests"}
                           /\ pc' = "solved"
                      ELSE /\ pc' = "exited"
                           /\ UNCHANGED <<solution, assigned_rests, attrs>>
          \/ /\ found = {}
             /\ status' = "INFEASIBLE"
             /\ pc' = "exited"
             /\ UNCHANGED <<val, solution, assigned_rests, attrs>>
          \/ /\ status' = "UNKNOWN"
             /\ pc' = "exited"
             /\ UNCHANGED <<val, solution, assigned_rests, attrs>>
    /\ UNCHANGED <<cfg, model, aux, roster_written, nurse_schedules, call, err>>
    /\ UNCHANGED regVars

NextScenario ==
    \/ RegisterScripted
    \/ ApplyConstraints
    \/ SolveBasis

\* 3 nurses (0 and 1 in team A, 2 in team B), 2 shift types, 7 days
InitTeamScenario == InitWith({ScenarioConfig(3, 7, 2, TeamScript)})
SpecTeamScenario == InitTeamScenario /\ [][NextScenario]_vars

\* the number of elements of S that hold P is written with Cardinality below
OnShift(d, s) == {n \in NurseIds(cfg) : X(n, d, s) \in val}
ShiftsWorked(n, d) == {s \in daily_shifts(cfg) : X(n, d, s) \in val}

\* C19: 3 nurses (two in team A, one in team B), 2 shift types, 7 days, the
\* rules single_nurse_per_shift, limit_shifts_per_period(1, 1) and
\* limit_nurse_per_team_per_day(1): the constraint set is satisfiable (the
\* solver never answers INFEASIBLE), and in every satisfying assignment each
\* day has exactly one nurse on each shift, team A supplies at most one of
\* the two daily assignments, and no nurse works more than one shift a day.
C19_TeamScenario ==
    /\ status # "INFEASIBLE"
    /\ status \in {"OPTIMAL", "FEASIBLE"} =>
          \A d \in all_days(cfg) :
             /\ \A s \in daily_shifts(cfg) : Cardinality(OnShift(d, s)) = 1
             /\ Cardinality({ns \in {n \in NurseIds(cfg) : cfg.team[n] = "A"} \X daily_shifts(cfg)
                                : X(ns[1], d, ns[2]) \in val}) <= 1
             /\ \A n \in NurseIds(cfg) : Cardinality(ShiftsWorked(n, d)) <= 1

\* a roster found for the scenario in which both nurses of team A work
C19_Witness ==
    /\ pc = "solved" /\ status = "OPTIMAL"
    /\ cfg.num_nurses = 3 /\ cfg.num_days = 7 /\ cfg.num_shifts = 2
    /\ cfg.team[0] = "A" /\ cfg.team[1] = "A" /\ cfg.team[2] = "B"
    /\ Len(applied) = 3
    /\ X(0, 0, 0) \in val /\ X(1, 1, 1) \in val /\ X(2, 6, 0) \in val

\* 2 or 3 nurses, 3 shift types, the rules of CoverageScript
InfeasibleConfigs ==
    {ScenarioConfig(n, nd, 3, CoverageScript) : n \in {2, 3}, nd \in 1..MaxHorizon}

InitInfeasible == InitWith(InfeasibleConfigs)
SpecInfeasible == InitInfeasible /\ [][NextScenario]_vars

\* C20: 2 nurses, 3 shift types, single_nurse_per_shift with
\* limit_shifts_per_period(1, 1): no assignment satisfies the constraint set
\* for any horizon of at least one day; once solve has run, the status is
\* not a solution status, the run has exited and no solution is stored.
C20_Infeasible ==
    (cfg.num_nurses = 2 /\ cfg.num_shifts = 3 /\ pc \notin {"constructed", "built"}) =>
        /\ status \notin {"OPTIMAL", "FEASIBLE"}
        /\ pc = "exited"
        /\ "solution" \notin attrs
        /\ solution = {}
        /\ val = {}

\* both rules applied over 3 days and the solver answers INFEASIBLE
C20_Witness ==
    /\ cfg.num_nurses = 2 /\ cfg.num_shifts = 3 /\ cfg.num_days = 3
    /\ Len(applied) = 2
    /\ status = "INFEASIBLE" /\ pc = "exited"

(***************************************************************************)
(* The bounds distribute_night_shifts_evenly adds, against the coverage    *)
(* single_nurse_per_shift asks of the night shift: one nurse every day.    *)
(***************************************************************************)
\* the right-hand sides of the two bounds the call added for nurse n
NightBoundsOf(n, rel) ==
    {c.rhs : c \in {b \in model : /\ b.rel = rel
                                  /\ b.pos = {X(n, d, call.shift_index) : d \in all_days(cfg)}}}

\* C21: for every horizon N >= 1 and nurse count n >= 1 the [min, max]
\* of distribute_night_shifts_evenly satisfies n * min <= N <= n * max, so
\* that the N night shifts, one per day, can be shared within the bounds.
C21_NightBoundsAllowCoverage ==
    (call.rule = "distribute_night_shifts_evenly" /\ pc \in {"built", "solved"}) =>
        \A n \in NurseIds(cfg) :
           /\ \A lo \in NightBoundsOf(n, ">=") : cfg.num_nurses * lo <= cfg.num_days
           /\ \A hi \in NightBoundsOf(n, "<=") : cfg.num_days <= cfg.num_nurses * hi

(***************************************************************************)
(* 'Part 01'/medmodus.py: distribute_shifts, called by create_model on the *)
(* weekday days and on the weekend days of the horizon.                    *)
(***************************************************************************)
\* (num_shifts * len(days)) // num_nurses
medmodus_min_shifts_per_nurse(num_shifts, len_days, num_nurses) ==
    (num_shifts * len_days) \div num_nurses

\* the test is on num_days, the length of the horizon
medmodus_max_shifts_per_nurse(num_shifts, len_days, num_days, num_nurses) ==
    IF (num_shifts * num_days) % num_nurses = 0
    THEN medmodus_min_shifts_per_nurse(num_shifts, len_days, num_nurses)
    ELSE medmodus_min_shifts_per_nurse(num_shifts, len_days, num_nurses) + 1

medmodus_distribute_shifts(nurses, days, all_shifts, num_nurses, num_days, num_shifts) ==
    UNION {{Add({X(n, d, s) : d \in days, s \in all_shifts}, ">=",
                medmodus_min_shifts_per_nurse(num_shifts, Cardinality(days), num_nurses)),
            Add({X(n, d, s) : d \in days, s \in all_shifts}, "<=",
                medmodus_max_shifts_per_nurse(num_shifts, Cardinality(days),
                                              num_days, num_nurses))}
           : n \in nurses}

\* [day for day in all_days if day % 7 < 5] and its complement
medmodus_weekday_days(c) == {d \in all_days(c) : d % 7 < 5}
medmodus_weekend_days(c) == {d \in all_days(c) : d % 7 >= 5}

\* create_model passes num_nurses = len(all_nurses), num_shifts = len(all_shifts)
Call_medmodus_distribute_shifts(days) ==
    /\ pc = "constructed"
    /\ call' = [rule |-> "distribute_shifts", days |-> days]
    /\ model' = model \cup medmodus_distribute_shifts(
           NurseIds(cfg), days, daily_shifts(cfg), cfg.num_nurses, cfg.num_days,
           cfg.num_shifts)
    /\ pc' = "built"
    /\ UNCHANGED <<cfg, aux, err>>
    /\ UNCHANGED runVars
    /\ UNCHANGED regVars

VariantConfigs ==
    {Config(n, nd, k, "Monday", FALSE)
        : n \in 1..MaxNurses, nd \in 1..MaxEvenDays, k \in 1..MaxShifts}

InitVariants == InitWith(VariantConfigs)
NextVariants ==
    \E days \in {medmodus_weekday_days(cfg), medmodus_weekend_days(cfg), all_days(cfg)} :
        Call_medmodus_distribute_shifts(days)
SpecVariants == InitVariants /\ [][NextVariants]_vars

\* C22: on every horizon, nurse count, shift count and day subset, Part 01's
\* distribute_shifts adds the [min, max] bounds that the library's
\* distribute_shifts_evenly adds on the same day subset with tolerance = 1.
\* Stated on the day subsets that hold a day, where the bounds limit a roster.
C22_VariantsAgree ==
    (call.rule = "distribute_shifts" /\ call.days # {}) =>
        model = distribute_shifts_evenly(NurseIds(cfg), call.days, daily_shifts(cfg),
                                         cfg.num_nurses, 1)

====
